---- MODULE Spec2Model ----
(***************************************************************************)
(* Model of the tender-document extraction pipeline of src/main.py.       *)
(*                                                                         *)
(* A Python str is a sequence of one-character strings, so that the       *)
(* regular expressions of the source can be run on it; Str(s) folds such  *)
(* a sequence back into a TLA+ string for reading.  Regular expressions   *)
(* are syntax trees interpreted by a backtracking matcher that follows    *)
(* the priorities of Python's re module (leftmost match, alternatives in  *)
(* order, greedy repeats longest first, lazy repeats shortest first).     *)
(***************************************************************************)
EXTENDS Integers, Sequences, FiniteSets, TLC

(***************************************************************************)
(* Characters                                                              *)
(***************************************************************************)
Digit == {"0", "1", "2", "3", "4", "5", "6", "7", "8", "9"}

LowerSeq == <<"a", "b", "c", "d", "e", "f", "g", "h", "i", "j", "k", "l", "m",
              "n", "o", "p", "q", "r", "s", "t", "u", "v", "w", "x", "y", "z">>

UpperSeq == <<"A", "B", "C", "D", "E", "F", "G", "H", "I", "J", "K", "L", "M",
              "N", "O", "P", "Q", "R", "S", "T", "U", "V", "W", "X", "Y", "Z">>

Range(f) == {f[k] : k \in DOMAIN f}

Lower == Range(LowerSeq)

Upper == Range(UpperSeq)

\* what \s matches, and what str.strip() removes
Space == {" ", "\t", "\n", "\r", "\f"}

\* the rupee sign U+20B9 of the tender fee pattern, as one character
Rupee == "U+20B9"

\* the en dash U+2013 of the eligibility pattern, as one character
EnDash == "U+2013"

Punct == {".", ",", ":", "-", "/", "@", "_", "%", "+", "'", "\"", "\\", "[", "]", "(", ")",
          Rupee, EnDash}

\* every character a modelled text can hold
Char == Digit \cup Lower \cup Upper \cup Space \cup Punct

\* the other case of a cased character (re.IGNORECASE)
SwapCase(c) ==
    IF c \in Lower THEN UpperSeq[CHOOSE k \in 1..26 : LowerSeq[k] = c]
    ELSE IF c \in Upper THEN LowerSeq[CHOOSE k \in 1..26 : UpperSeq[k] = c]
    ELSE c

RECURSIVE Str(_)
\* the TLA+ string spelled by a sequence of characters
Str(s) == IF s = <<>> THEN "" ELSE Head(s) \o Str(Tail(s))

(***************************************************************************)
(* Regular expressions (module re)                                         *)
(***************************************************************************)
\* no upper limit of a repeat
Inf == -1

\* capture groups of a pattern are numbered 1..NGroups
NGroups == 2

Node(t, cs, lit, rs, lo, hi, greedy, n) ==
    [t |-> t, cs |-> cs, lit |-> lit, rs |-> rs, lo |-> lo, hi |-> hi,
     greedy |-> greedy, n |-> n, ignorecase |-> FALSE]

\* one character of the set cs
Ch(cs) == Node("ch", cs, <<>>, <<>>, 0, 0, TRUE, 0)

\* a literal string
Lit(s) == Node("lit", {}, s, <<>>, 0, 0, TRUE, 0)

\* r1 r2 ... in sequence
Cat(rs) == Node("cat", {}, <<>>, rs, 0, 0, TRUE, 0)

\* r1|r2|...
Alt(rs) == Node("alt", {}, <<>>, rs, 0, 0, TRUE, 0)

\* r{lo,hi}, greedy or lazy
Rep(r, lo, hi, greedy) == Node("rep", {}, <<>>, <<r>>, lo, hi, greedy, 0)

\* capture group number n
Grp(n, r) == Node("grp", {}, <<>>, <<r>>, 0, 0, TRUE, n)

\* the end of capture group n that started at position from
Close(n, from) == Node("close", {}, <<>>, <<>>, from, 0, TRUE, n)

\* $
Eos == Node("eos", {}, <<>>, <<>>, 0, 0, TRUE, 0)

Opt(r) == Rep(r, 0, 1, TRUE)

Star(r) == Rep(r, 0, Inf, TRUE)

Plus(r) == Rep(r, 1, Inf, TRUE)

LazyStar(r) == Rep(r, 0, Inf, FALSE)

\* . without re.DOTALL
Dot == Ch(Char \ {"\n"})

\* . under re.DOTALL
DotAll == Ch(Char)

RECURSIVE IgnoreCase(_)
\* the pattern compiled with re.IGNORECASE
IgnoreCase(r) ==
    [r EXCEPT !.ignorecase = TRUE, !.rs = [k \in DOMAIN r.rs |-> IgnoreCase(r.rs[k])]]

\* character c of the text is character d of the pattern
SameChar(c, d, ignorecase) == c = d \/ (ignorecase /\ SwapCase(c) = d)

\* character c of the text is in the set cs of the pattern
InClass(c, cs, ignorecase) == c \in cs \/ (ignorecase /\ SwapCase(c) \in cs)

NoCaps == [k \in 1..NGroups |-> <<0, 0>>]

NoMatch == [ok |-> FALSE, start |-> 0, end |-> 0, caps |-> NoCaps]

Less(hi) == IF hi = Inf THEN Inf ELSE hi - 1

\* how many characters of s from position i on match the class ch, at most hi of them
Run(s, i, ch, hi) ==
    LET left == Len(s) - i + 1
        most == IF hi = Inf \/ hi > left THEN left ELSE hi
        Stops(k) == k = most \/ ~InClass(s[i + k], ch.cs, ch.ignorecase)
    IN  CHOOSE k \in 0..most : Stops(k) /\ \A j \in 0..(k - 1) : ~Stops(j)

RECURSIVE M(_, _, _, _)
RECURSIVE Longest(_, _, _, _, _, _)

\* a greedy repeat of one character class: k repeats, or the nearest smaller number
\* (down to lo) after which the rest matches
Longest(rest, s, i, caps, k, lo) ==
    LET m == M(rest, s, i + k, caps)
    IN  IF m.ok THEN m
        ELSE IF k = lo THEN NoMatch
        ELSE Longest(rest, s, i, caps, k - 1, lo)

\* a lazy repeat of one character class: the smallest number of repeats in lo..n
\* after which the rest matches
Shortest(rest, s, i, caps, lo, n) ==
    LET fits == {k \in lo..n : M(rest, s, i + k, caps).ok}
    IN  IF fits = {} THEN NoMatch
        ELSE M(rest, s, i + (CHOOSE k \in fits : \A j \in fits : k <= j), caps)

\* match the patterns of stack, in sequence, against s from position i
M(stack, s, i, caps) ==
    IF stack = <<>> THEN [ok |-> TRUE, start |-> 0, end |-> i, caps |-> caps]
    ELSE
    LET h == Head(stack)
        rest == Tail(stack)
    IN  CASE h.t = "ch" ->
                IF i <= Len(s) /\ InClass(s[i], h.cs, h.ignorecase)
                THEN M(rest, s, i + 1, caps) ELSE NoMatch
          [] h.t = "lit" ->
                IF /\ i + Len(h.lit) - 1 <= Len(s)
                   /\ \A k \in 1..Len(h.lit) : SameChar(s[i + k - 1], h.lit[k], h.ignorecase)
                THEN M(rest, s, i + Len(h.lit), caps) ELSE NoMatch
          [] h.t = "cat" -> M(h.rs \o rest, s, i, caps)
          [] h.t = "alt" ->
                IF h.rs = <<>> THEN NoMatch
                ELSE LET first == M(<<Head(h.rs)>> \o rest, s, i, caps)
                     IN  IF first.ok THEN first
                         ELSE M(<<[h EXCEPT !.rs = Tail(h.rs)]>> \o rest, s, i, caps)
          [] h.t = "rep" /\ h.rs[1].t = "ch" ->
                \* a repeated character class: of the run of n characters, as many
                \* (greedy) or as few (lazy) as let the rest match
                LET n == Run(s, i, h.rs[1], h.hi)
                IN  IF n < h.lo THEN NoMatch
                    ELSE IF h.greedy THEN Longest(rest, s, i, caps, n, h.lo)
                    ELSE Shortest(rest, s, i, caps, h.lo, n)
          [] h.t = "rep" /\ h.rs[1].t # "ch" ->
                LET again == [h EXCEPT !.lo = IF h.lo > 0 THEN h.lo - 1 ELSE 0,
                                       !.hi = Less(h.hi)]
                IN  IF h.lo > 0 THEN M(<<h.rs[1], again>> \o rest, s, i, caps)
                    ELSE IF h.hi = 0 THEN M(rest, s, i, caps)
                    ELSE IF h.greedy
                    THEN LET more == M(<<h.rs[1], again>> \o rest, s, i, caps)
                         IN  IF more.ok THEN more ELSE M(rest, s, i, caps)
                    ELSE LET none == M(rest, s, i, caps)
                         IN  IF none.ok THEN none
                             ELSE M(<<h.rs[1], again>> \o rest, s, i, caps)
          [] h.t = "grp" -> M(<<h.rs[1], Close(h.n, i)>> \o rest, s, i, caps)
          [] h.t = "close" -> M(rest, s, i, [caps EXCEPT ![h.n] = <<h.lo, i>>])
          [] h.t = "eos" ->
                IF i = Len(s) + 1 \/ (i = Len(s) /\ s[i] = "\n")
                THEN M(rest, s, i, caps) ELSE NoMatch

\* re.match: the pattern at the start of s
ReMatch(r, s) == [M(<<r>>, s, 1, NoCaps) EXCEPT !.start = 1]

\* the leftmost match of r in s at or after position i
SearchFrom(r, s, i) ==
    LET starts == {j \in i..(Len(s) + 1) : M(<<r>>, s, j, NoCaps).ok}
    IN  IF starts = {} THEN NoMatch
        ELSE LET first == CHOOSE j \in starts : \A k \in starts : j <= k
             IN  [M(<<r>>, s, first, NoCaps) EXCEPT !.start = first]

\* re.search
ReSearch(r, s) == SearchFrom(r, s, 1)

\* match.group(n); group 0 is the whole match
Group(s, m, n) ==
    IF n = 0 THEN SubSeq(s, m.start, m.end - 1)
    ELSE SubSeq(s, m.caps[n][1], m.caps[n][2] - 1)

RECURSIVE FindAllFrom(_, _, _)
FindAllFrom(r, s, i) ==
    LET m == SearchFrom(r, s, i)
    IN  IF ~m.ok THEN <<>>
        ELSE <<Group(s, m, 0)>>
             \o FindAllFrom(r, s, IF m.end = m.start THEN m.end + 1 ELSE m.end)

\* re.findall for a pattern without groups: the non-overlapping matches, left to right
ReFindAll(r, s) == FindAllFrom(r, s, 1)

RECURSIVE SubFrom(_, _, _, _)
SubFrom(r, repl, s, i) ==
    LET m == SearchFrom(r, s, i)
    IN  IF ~m.ok THEN SubSeq(s, i, Len(s))
        ELSE SubSeq(s, i, m.start - 1) \o repl
             \o (IF m.end = m.start
                 THEN SubSeq(s, m.start, m.start) \o SubFrom(r, repl, s, m.end + 1)
                 ELSE SubFrom(r, repl, s, m.end))

\* re.sub with a constant replacement
ReSub(r, repl, s) == SubFrom(r, repl, s, 1)

RECURSIVE LStrip(_)
LStrip(s) == IF s # <<>> /\ Head(s) \in Space THEN LStrip(Tail(s)) ELSE s

RECURSIVE RStrip(_)
RStrip(s) ==
    IF s # <<>> /\ s[Len(s)] \in Space THEN RStrip(SubSeq(s, 1, Len(s) - 1)) ELSE s

\* str.strip()
Strip(s) == RStrip(LStrip(s))

\* sub in s, for two str
Contains(sub, s) ==
    \E i \in 1..(Len(s) - Len(sub) + 1) : SubSeq(s, i, i + Len(sub) - 1) = sub

(***************************************************************************)
(* String literals of src/main.py, as sequences of characters              *)
(***************************************************************************)
\* "Not found"
sNotFound == <<"N", "o", "t", " ", "f", "o", "u", "n", "d">>

\* "Title not found"
sTitleNotFound == <<"T", "i", "t", "l", "e", " ", "n", "o", "t", " ", "f", "o", "u", "n", "d">>

\* "Eligibility criteria not found"
sEligibilityNotFound ==
    <<"E", "l", "i", "g", "i", "b", "i", "l", "i", "t", "y", " ", "c", "r", "i", "t", "e",
      "r", "i", "a", " ", "n", "o", "t", " ", "f", "o", "u", "n", "d">>

\* "Error extracting eligibility info"
sEligibilityError ==
    <<"E", "r", "r", "o", "r", " ", "e", "x", "t", "r", "a", "c", "t", "i", "n", "g", " ",
      "e", "l", "i", "g", "i", "b", "i", "l", "i", "t", "y", " ", "i", "n", "f", "o">>

\* "None"
sNone == <<"N", "o", "n", "e">>

\* "Opening of Technical e-Bid"
sMarker ==
    <<"O", "p", "e", "n", "i", "n", "g", " ", "o", "f", " ", "T", "e", "c", "h", "n", "i",
      "c", "a", "l", " ", "e", "-", "B", "i", "d">>

\* "Tender Fee"
sTenderFee == <<"T", "e", "n", "d", "e", "r", " ", "F", "e", "e">>

\* "EMD"
sEMD == <<"E", "M", "D">>

(***************************************************************************)
(* Texts and table cells of the modelled documents, as sequences of        *)
(* characters                                                              *)
(***************************************************************************)
(***************************************************************************)
(* The patterns of src/main.py                                             *)
(***************************************************************************)
OptSpace == Opt(Ch(Space))

Spaces == Star(Ch(Space))

\* \s+  (clean_text)
whitespace_pattern == Plus(Ch(Space))

\* Ref\.?\s?[eE]-?Tender Notice\s?-?\s?([A-Z0-9/]+)
ref_number_pattern ==
    LET \* "Ref"
        sRef == <<"R", "e", "f">>
        \* "Tender Notice"
        sTenderNotice == <<"T", "e", "n", "d", "e", "r", " ", "N", "o", "t", "i", "c", "e">>
    IN
    Cat(<<Lit(sRef), Opt(Ch({"."})), OptSpace, Ch({"e", "E"}), Opt(Ch({"-"})),
          Lit(sTenderNotice), OptSpace, Opt(Ch({"-"})), OptSpace,
          Grp(1, Plus(Ch(Upper \cup Digit \cup {"/"})))>>)

\* (?:invites e-tender for|e-tender for|purpose of)\s+(Fabrication of Machine[^.]*?Materials)
\* with re.IGNORECASE
title_pattern ==
    LET \* "invites e-tender for"
        sInvitesETenderFor == <<"i", "n", "v", "i", "t", "e", "s", " ", "e", "-", "t", "e", "n",
                            "d", "e", "r", " ", "f", "o", "r">>
        \* "e-tender for"
        sETenderFor == <<"e", "-", "t", "e", "n", "d", "e", "r", " ", "f", "o", "r">>
        \* "purpose of"
        sPurposeOf == <<"p", "u", "r", "p", "o", "s", "e", " ", "o", "f">>
        \* "Fabrication of Machine"
        sFabricationOfMachine == <<"F", "a", "b", "r", "i", "c", "a", "t", "i", "o", "n", " ",
                               "o", "f", " ", "M", "a", "c", "h", "i", "n", "e">>
        \* "Materials"
        sMaterials == <<"M", "a", "t", "e", "r", "i", "a", "l", "s">>
    IN
    IgnoreCase(Cat(<<Alt(<<Lit(sInvitesETenderFor), Lit(sETenderFor), Lit(sPurposeOf)>>),
                     Plus(Ch(Space)),
                     Grp(1, Cat(<<Lit(sFabricationOfMachine), LazyStar(Ch(Char \ {"."})),
                                  Lit(sMaterials)>>))>>))

\* \d{1,2}[\./-]?\d{1,2}[\./-]?\d{4}
date_pattern ==
    Cat(<<Rep(Ch(Digit), 1, 2, TRUE), Opt(Ch({".", "/", "-"})),
          Rep(Ch(Digit), 1, 2, TRUE), Opt(Ch({".", "/", "-"})),
          Rep(Ch(Digit), 4, 4, TRUE)>>)

\* (?:Start|Commencement)\s?Date[:\-]?\s*(<date>)
start_date_pattern ==
    LET \* "Start"
        sStart == <<"S", "t", "a", "r", "t">>
        \* "Commencement"
        sCommencement == <<"C", "o", "m", "m", "e", "n", "c", "e", "m", "e", "n", "t">>
        \* "Date"
        sDate == <<"D", "a", "t", "e">>
    IN
    Cat(<<Alt(<<Lit(sStart), Lit(sCommencement)>>), OptSpace, Lit(sDate),
          Opt(Ch({":", "-"})), Spaces, Grp(1, date_pattern)>>)

\* (?:End|Completion)\s?Date[:\-]?\s*(<date>)
end_date_pattern ==
    LET \* "End"
        sEnd == <<"E", "n", "d">>
        \* "Completion"
        sCompletion == <<"C", "o", "m", "p", "l", "e", "t", "i", "o", "n">>
        \* "Date"
        sDate == <<"D", "a", "t", "e">>
    IN
    Cat(<<Alt(<<Lit(sEnd), Lit(sCompletion)>>), OptSpace, Lit(sDate),
          Opt(Ch({":", "-"})), Spaces, Grp(1, date_pattern)>>)

\* (?:Physical\s?submission\s?of\s?Tender|Submission)\s?[Ee]nd\s?[Dd]ate[:\-]?\s*(<date>)
physical_submission_end_date_pattern ==
    LET \* "Physical"
        sPhysical == <<"P", "h", "y", "s", "i", "c", "a", "l">>
        \* "submission"
        sSubmissionLower == <<"s", "u", "b", "m", "i", "s", "s", "i", "o", "n">>
        \* "of"
        sOf == <<"o", "f">>
        \* "Tender"
        sTender == <<"T", "e", "n", "d", "e", "r">>
        \* "Submission"
        sSubmission == <<"S", "u", "b", "m", "i", "s", "s", "i", "o", "n">>
        \* "nd"
        sNd == <<"n", "d">>
        \* "ate"
        sAte == <<"a", "t", "e">>
    IN
    Cat(<<Alt(<<Cat(<<Lit(sPhysical), OptSpace, Lit(sSubmissionLower), OptSpace,
                      Lit(sOf), OptSpace, Lit(sTender)>>),
                Lit(sSubmission)>>),
          OptSpace, Ch({"E", "e"}), Lit(sNd), OptSpace, Ch({"D", "d"}), Lit(sAte),
          Opt(Ch({":", "-"})), Spaces, Grp(1, date_pattern)>>)

\* \d{2}.\d{2}.\d{4}
cell_date_pattern ==
    Cat(<<Rep(Ch(Digit), 2, 2, TRUE), Dot, Rep(Ch(Digit), 2, 2, TRUE), Dot,
          Rep(Ch(Digit), 4, 4, TRUE)>>)

\* [0-9,]+(?:\.\d{2})?
amount_pattern ==
    Cat(<<Plus(Ch(Digit \cup {","})), Opt(Cat(<<Ch({"."}), Rep(Ch(Digit), 2, 2, TRUE)>>))>>)

\* ([0-9,]+(?:\.\d{2})?)\s*(?:INR|<rupee sign>|Rs|Rupees)?\s*(?:Tender\s*Fee|Fee)?
tender_fee_pattern ==
    LET \* "Tender"
        sTender == <<"T", "e", "n", "d", "e", "r">>
        \* "INR"
        sINR == <<"I", "N", "R">>
        \* "Rs"
        sRs == <<"R", "s">>
        \* "Rupees"
        sRupees == <<"R", "u", "p", "e", "e", "s">>
        \* "Fee"
        sFee == <<"F", "e", "e">>
    IN
    Cat(<<Grp(1, amount_pattern), Spaces,
          Opt(Alt(<<Lit(sINR), Ch({Rupee}), Lit(sRs), Lit(sRupees)>>)), Spaces,
          Opt(Alt(<<Cat(<<Lit(sTender), Spaces, Lit(sFee)>>), Lit(sFee)>>))>>)

\* ([0-9,]+(?:\.\d{2})?)\s*(?:EMD|Earnest\s*Money\s*Deposit)?
emd_pattern ==
    LET \* "Earnest"
        sEarnest == <<"E", "a", "r", "n", "e", "s", "t">>
        \* "Money"
        sMoney == <<"M", "o", "n", "e", "y">>
        \* "Deposit"
        sDeposit == <<"D", "e", "p", "o", "s", "i", "t">>
    IN
    Cat(<<Grp(1, amount_pattern), Spaces,
          Opt(Alt(<<Lit(sEMD),
                    Cat(<<Lit(sEarnest), Spaces, Lit(sMoney), Spaces, Lit(sDeposit)>>)>>))>>)

\* (This is a domestic Tender.*?Only class ?<en dash>? I.*?eligible to participate in tender.*?)
\* (?:\n{2,}|Annexure|Read and Accepted|Technical bid)   with re.DOTALL | re.IGNORECASE
eligibility_pattern ==
    LET \* "This is a domestic Tender"
        sDomesticTender == <<"T", "h", "i", "s", " ", "i", "s", " ", "a", " ", "d", "o", "m", "e",
                         "s", "t", "i", "c", " ", "T", "e", "n", "d", "e", "r">>
        \* "Only class"
        sOnlyClass == <<"O", "n", "l", "y", " ", "c", "l", "a", "s", "s">>
        \* " I"
        sSpaceI == <<" ", "I">>
        \* "eligible to participate in tender"
        sEligibleToParticipate == <<"e", "l", "i", "g", "i", "b", "l", "e", " ", "t", "o", " ",
                                "p", "a", "r", "t", "i", "c", "i", "p", "a", "t", "e", " ", "i",
                                "n", " ", "t", "e", "n", "d", "e", "r">>
        \* "Annexure"
        sAnnexure == <<"A", "n", "n", "e", "x", "u", "r", "e">>
        \* "Read and Accepted"
        sReadAndAccepted == <<"R", "e", "a", "d", " ", "a", "n", "d", " ", "A", "c", "c", "e",
                          "p", "t", "e", "d">>
        \* "Technical bid"
        sTechnicalBid == <<"T", "e", "c", "h", "n", "i", "c", "a", "l", " ", "b", "i", "d">>
    IN
    IgnoreCase(
        Cat(<<Grp(1, Cat(<<Lit(sDomesticTender), LazyStar(DotAll), Lit(sOnlyClass),
                           Opt(Ch({" "})), Opt(Ch({EnDash})), Lit(sSpaceI), LazyStar(DotAll),
                           Lit(sEligibleToParticipate), LazyStar(DotAll)>>)),
              Alt(<<Rep(Ch({"\n"}), 2, Inf, TRUE), Lit(sAnnexure), Lit(sReadAndAccepted),
                    Lit(sTechnicalBid)>>)>>))

\* \d+[\.\-]?\s+
numbering_pattern == Cat(<<Plus(Ch(Digit)), Opt(Ch({".", "-"})), Plus(Ch(Space))>>)

\* (Technical\s?Specifications|Scope\s?of\s?Work|Work\s?Specifications)\s*[:\-]?\s*(.*?)(?:\n|$)
\* with re.IGNORECASE
technical_pattern ==
    LET \* "Technical"
        sTechnical == <<"T", "e", "c", "h", "n", "i", "c", "a", "l">>
        \* "Specifications"
        sSpecifications == <<"S", "p", "e", "c", "i", "f", "i", "c", "a", "t", "i", "o", "n",
                         "s">>
        \* "Scope"
        sScope == <<"S", "c", "o", "p", "e">>
        \* "of"
        sOf == <<"o", "f">>
        \* "Work"
        sWork == <<"W", "o", "r", "k">>
    IN
    IgnoreCase(
        Cat(<<Grp(1, Alt(<<Cat(<<Lit(sTechnical), OptSpace, Lit(sSpecifications)>>),
                           Cat(<<Lit(sScope), OptSpace, Lit(sOf), OptSpace, Lit(sWork)>>),
                           Cat(<<Lit(sWork), OptSpace, Lit(sSpecifications)>>)>>)),
              Spaces, Opt(Ch({":", "-"})), Spaces, Grp(2, LazyStar(Dot)),
              Alt(<<Ch({"\n"}), Eos>>)>>))

\* [a-zA-Z0-9._%+-]+@[a-zA-Z0-9.-]+\.[a-zA-Z]{2,}
email_pattern ==
    Cat(<<Plus(Ch(Lower \cup Upper \cup Digit \cup {".", "_", "%", "+", "-"})), Ch({"@"}),
          Plus(Ch(Lower \cup Upper \cup Digit \cup {".", "-"})), Ch({"."}),
          Rep(Ch(Lower \cup Upper), 2, Inf, TRUE)>>)

\* \d{3}[-]?\d{3}[-]?\d{4}
phone_pattern ==
    Cat(<<Rep(Ch(Digit), 3, 3, TRUE), Opt(Ch({"-"})), Rep(Ch(Digit), 3, 3, TRUE),
          Opt(Ch({"-"})), Rep(Ch(Digit), 4, 4, TRUE)>>)

(***************************************************************************)
(* Python values: a str, None, an int or a list, tagged with its type.    *)
(* v holds the characters of a str, the digits of an int, the items of a  *)
(* list.                                                                   *)
(***************************************************************************)
PyStr(s) == [ty |-> "str", v |-> s]

PyNone == [ty |-> "NoneType", v |-> <<>>]

PyInt(digits) == [ty |-> "int", v |-> digits]

PyList(items) == [ty |-> "list", v |-> items]

IsStr(x) == x.ty = "str"

IsList(x) == x.ty = "list"

\* bool(x)
Truthy(x) ==
    CASE x.ty = "NoneType" -> FALSE
      [] x.ty = "int" -> x.v # <<"0">>
      [] OTHER -> x.v # <<>>

RECURSIVE Escaped(_, _)
\* the characters of s as repr writes them between quotes q
Escaped(s, q) ==
    IF s = <<>> THEN <<>>
    ELSE LET c == Head(s)
         IN  (CASE c = "\n" -> <<"\\", "n">>
                [] c = "\t" -> <<"\\", "t">>
                [] c = "\r" -> <<"\\", "r">>
                [] c = "\f" -> <<"\\", "x", "0", "c">>
                [] c = "\\" -> <<"\\", "\\">>
                [] c = q -> <<"\\", q>>
                [] OTHER -> <<c>>) \o Escaped(Tail(s), q)

RECURSIVE Join(_, _)
\* sep.join(parts)
Join(parts, sep) ==
    IF parts = <<>> THEN <<>>
    ELSE IF Len(parts) = 1 THEN parts[1]
    ELSE parts[1] \o sep \o Join(Tail(parts), sep)

RECURSIVE PyRepr(_)
\* repr(x)
PyRepr(x) ==
    CASE x.ty = "str" ->
            LET q == IF "'" \in Range(x.v) /\ "\"" \notin Range(x.v) THEN "\"" ELSE "'"
            IN  <<q>> \o Escaped(x.v, q) \o <<q>>
      [] x.ty = "NoneType" -> sNone
      [] x.ty = "int" -> x.v
      [] x.ty = "list" ->
            <<"[">> \o Join([k \in DOMAIN x.v |-> PyRepr(x.v[k])], <<",", " ">>) \o <<"]">>

\* str(x)
PyStrOf(x) == IF x.ty = "str" THEN x.v ELSE PyRepr(x)

(***************************************************************************)
(* Dictionaries: functions from the keys present to their values.         *)
(***************************************************************************)
EmptyDict == [k \in {} |-> <<>>]

\* d[key] = val
DictSet(d, key, val) == [k \in DOMAIN d \cup {key} |-> IF k = key THEN val ELSE d[k]]

\* the outcome of a call or of a try block: the value returned or the exception
\* raised, and the errors logged on the way
Returned(val) == [raised |-> FALSE, exc |-> "", val |-> val, log |-> <<>>]

Raise(exc) == [raised |-> TRUE, exc |-> exc, val |-> <<>>, log |-> <<>>]

\* logging.error(msg) before the outcome
Logged(msg, outcome) == [outcome EXCEPT !.log = <<msg>> \o @]

\* a handler that logs and lets the exception of the body through, for comparison
ExceptReraise(body, msg, exc) == IF body.raised THEN Logged(msg, body) ELSE body

\* except Exception: logging.error(msg); raise exc
ExceptRaise(body, msg, exc) == IF body.raised THEN Logged(msg, Raise(exc)) ELSE body

\* an extractor without its except clause, for comparison
ExceptPropagate(body, msg, sentinel) == body

\* except Exception: logging.error(msg); the result is the sentinel
ExceptReturn(body, msg, sentinel) ==
    IF body.raised THEN Logged(msg, Returned(sentinel)) ELSE body

\* what a for loop over x visits; None and an int are not iterable
Iterable(x) == x.ty \in {"list", "str"}

Items(x) == IF x.ty = "str" THEN [k \in DOMAIN x.v |-> PyStr(<<x.v[k]>>)] ELSE x.v

(***************************************************************************)
(* The PDF file, as pdfplumber shows it: a missing file, a file that is   *)
(* no PDF, or a sequence of pages.  A page has the text extract_text()    *)
(* returns (None for a page without text) and the tables                  *)
(* extract_tables() returns, or tables_raise when that call raises.       *)
(***************************************************************************)
Page(text, tables, tables_raise) ==
    [text |-> text, tables |-> tables, tables_raise |-> tables_raise]

MissingFile == [kind |-> "missing", pages |-> <<>>]

NotAPdf == [kind |-> "not_pdf", pages |-> <<>>]

Pdf(pages) == [kind |-> "pdf", pages |-> pages]

\* pdfplumber.open(file_path)
pdfplumber_open(file) ==
    CASE file.kind = "missing" -> Raise("FileNotFoundError")
      [] file.kind = "not_pdf" -> Raise("PDFSyntaxError")
      [] OTHER -> Returned(file.pages)

\* the model and tokenizer, when the model repository serves them
load_model(available) ==
    ExceptRaise(IF available THEN Returned(<<"model", "tokenizer">>) ELSE Raise("OSError"),
                "Error loading model", "RuntimeError")

RECURSIVE load_document_pages(_, _, _)
\* lines 41-42: for page in pdf.pages: document_text += page.extract_text() + "\n"
load_document_pages(pages, k, document_text) ==
    IF k > Len(pages) THEN Returned(PyStr(document_text))
    ELSE IF ~IsStr(pages[k].text) THEN Raise("TypeError")
    ELSE load_document_pages(pages, k + 1, document_text \o pages[k].text.v \o <<"\n">>)

\* the try block of load_document
load_document_try(file) ==
    IF pdfplumber_open(file).raised THEN pdfplumber_open(file)
    ELSE load_document_pages(file.pages, 1, <<>>)

load_document(file) ==
    ExceptRaise(load_document_try(file), "Error loading document", "FileNotFoundError")

RECURSIVE extract_table_pages(_, _, _)
\* lines 60-63: for page in pdf.pages: for table in page.extract_tables(): append
extract_table_pages(pages, k, table_data) ==
    IF k > Len(pages) THEN Returned(PyList(table_data))
    ELSE IF pages[k].tables_raise THEN Raise("Exception")
    ELSE extract_table_pages(pages, k + 1, table_data \o pages[k].tables)

\* the try block of extract_table_data
extract_table_data_try(file) ==
    IF pdfplumber_open(file).raised THEN pdfplumber_open(file)
    ELSE extract_table_pages(file.pages, 1, <<>>)

extract_table_data(file) ==
    ExceptRaise(extract_table_data_try(file), "Error extracting table data", "RuntimeError")

\* re.sub(r'\s+', ' ', text).strip()
clean_text(text) == Strip(ReSub(whitespace_pattern, <<" ">>, text))

(***************************************************************************)
(* The field extractors                                                    *)
(***************************************************************************)
\* if match: info[key] = match.group(n)
SetIfMatch(info, key, s, match, n) ==
    IF match.ok THEN DictSet(info, key, Group(s, match, n)) ELSE info

\* info[key] = match.group(n).strip() if match else default
SetStripped(info, key, s, match, n, default) ==
    DictSet(info, key, IF match.ok THEN Strip(Group(s, match, n)) ELSE default)

\* info[key] = match.group(n) if match else default
SetOrDefault(info, key, s, match, n, default) ==
    DictSet(info, key, IF match.ok THEN Group(s, match, n) ELSE default)

\* a cell without an amount clears the field, for comparison
SetCleanedOrClear(info, key, s, match) ==
    IF match.ok THEN DictSet(info, key, clean_text(Group(s, match, 1)))
    ELSE [k \in DOMAIN info \ {key} |-> info[k]]

\* if match: info[key] = clean_text(match.group(1))
SetCleaned(info, key, s, match) ==
    IF match.ok THEN DictSet(info, key, clean_text(Group(s, match, 1))) ELSE info

\* the try block of extract_tender_info
tender_info_try(text) ==
    IF ~IsStr(text) THEN Raise("TypeError")
    ELSE Returned(SetStripped(SetIfMatch(EmptyDict, "reference_number", text.v,
                                         ReSearch(ref_number_pattern, text.v), 1),
                              "title", text.v, ReSearch(title_pattern, text.v), 1,
                              sTitleNotFound))

tender_info_sentinel == [reference_number |-> sNotFound, title |-> sNotFound]

extract_tender_info(text) ==
    ExceptReturn(tender_info_try(text), "Error extracting tender info", tender_info_sentinel)

RECURSIVE timeline_cells_no_break(_, _, _)
\* the scan of the cells without its break, for comparison: the last cell that
\* starts like a date
timeline_cells_no_break(cells, k, timeline_info) ==
    IF k > Len(cells) THEN Returned(timeline_info)
    ELSE IF ReMatch(cell_date_pattern, PyStrOf(cells[k])).ok
    THEN IF IsStr(cells[k])
         THEN timeline_cells_no_break(cells, k + 1,
                  DictSet(timeline_info, "technical_bid_opening", Strip(cells[k].v)))
         ELSE Raise("AttributeError")
    ELSE timeline_cells_no_break(cells, k + 1, timeline_info)

RECURSIVE timeline_cells(_, _, _)
\* lines 129-132: the first cell of the row that starts like a date, stripped
timeline_cells(cells, k, timeline_info) ==
    IF k > Len(cells) THEN Returned(timeline_info)
    ELSE IF ReMatch(cell_date_pattern, PyStrOf(cells[k])).ok
    THEN IF IsStr(cells[k])
         THEN Returned(DictSet(timeline_info, "technical_bid_opening", Strip(cells[k].v)))
         ELSE Raise("AttributeError")
    ELSE timeline_cells(cells, k + 1, timeline_info)

\* lines 128-132: one row of the timeline scan
timeline_row(row, timeline_info) ==
    IF ~Contains(sMarker, PyStrOf(row)) THEN Returned(timeline_info)
    ELSE IF ~Iterable(row) THEN Raise("TypeError")
    ELSE timeline_cells(Items(row), 1, timeline_info)

RECURSIVE timeline_rows(_, _, _)
\* lines 127-132: for row in table, as long as nothing raised
timeline_rows(rows, k, scanned) ==
    IF scanned.raised \/ k > Len(rows) THEN scanned
    ELSE timeline_rows(rows, k + 1, timeline_row(rows[k], scanned.val))

RECURSIVE timeline_tables(_, _, _)
\* lines 126-132: for table in table_data, as long as nothing raised
timeline_tables(tables, k, scanned) ==
    IF scanned.raised \/ k > Len(tables) THEN scanned
    ELSE IF ~Iterable(tables[k]) THEN Raise("TypeError")
    ELSE timeline_tables(tables, k + 1, timeline_rows(Items(tables[k]), 1, scanned))

\* lines 116-123: the three dates of the text
timeline_dates(s) ==
    SetOrDefault(
        SetOrDefault(
            SetOrDefault(EmptyDict, "start_date", s, ReSearch(start_date_pattern, s), 1,
                         sNotFound),
            "end_date", s, ReSearch(end_date_pattern, s), 1, sNotFound),
        "physical_submission_end_date", s,
        ReSearch(physical_submission_end_date_pattern, s), 1, sNotFound)

\* the try block of extract_timeline_info
timeline_info_try(text, table_data) ==
    IF ~IsStr(text) THEN Raise("TypeError")
    ELSE IF ~Iterable(table_data) THEN Raise("TypeError")
    ELSE timeline_tables(Items(table_data), 1, Returned(timeline_dates(text.v)))

timeline_info_sentinel ==
    [start_date |-> sNotFound, end_date |-> sNotFound,
     physical_submission_end_date |-> sNotFound, technical_bid_opening |-> sNotFound]

extract_timeline_info(text, table_data) ==
    ExceptReturn(timeline_info_try(text, table_data), "Error extracting timeline info",
                 timeline_info_sentinel)

\* line 165: "Tender Fee" in tender_fee and "EMD" in emd, for two str
IsHeaderRow(tender_fee, emd) == Contains(sTenderFee, tender_fee) /\ Contains(sEMD, emd)

\* lines 170-172, after the tender fee of the row is taken
financial_emd(emd, financial_info) ==
    IF ~IsStr(emd) THEN Raise("TypeError")
    ELSE Returned(SetCleaned(financial_info, "emd", emd.v, ReSearch(emd_pattern, emd.v)))

\* lines 164-172: cells 3 and 4 of a row
financial_cells(tender_fee, emd, financial_info) ==
    IF ~(Truthy(tender_fee) /\ Truthy(emd)) THEN Returned(financial_info)
    ELSE IF ~IsStr(tender_fee) THEN Raise("TypeError")
    ELSE IF Contains(sTenderFee, tender_fee.v) /\ ~IsStr(emd) THEN Raise("TypeError")
    ELSE IF IsHeaderRow(tender_fee.v, emd.v) THEN Returned(financial_info)
    ELSE financial_emd(emd, SetCleaned(financial_info, "tender_fee", tender_fee.v,
                                       ReSearch(tender_fee_pattern, tender_fee.v)))

\* lines 161-172: one row of the financial scan
financial_row(row, financial_info) ==
    IF ~Iterable(row) THEN Raise("TypeError")
    ELSE IF Len(Items(row)) < 5 THEN Returned(financial_info)
    ELSE financial_cells(Items(row)[4], Items(row)[5], financial_info)

RECURSIVE financial_rows(_, _, _)
\* lines 160-172: for row in table, as long as nothing raised
financial_rows(rows, k, scanned) ==
    IF scanned.raised \/ k > Len(rows) THEN scanned
    ELSE financial_rows(rows, k + 1, financial_row(rows[k], scanned.val))

RECURSIVE financial_tables(_, _, _)
\* lines 159-172: for table in table_data, as long as nothing raised
financial_tables(tables, k, scanned) ==
    IF scanned.raised \/ k > Len(tables) THEN scanned
    ELSE IF ~Iterable(tables[k]) THEN Raise("TypeError")
    ELSE financial_tables(tables, k + 1, financial_rows(Items(tables[k]), 1, scanned))

\* the try block of extract_financial_info_from_table
financial_info_try(table_data) ==
    IF ~Iterable(table_data) THEN Raise("TypeError")
    ELSE financial_tables(Items(table_data), 1, Returned(EmptyDict))

financial_info_sentinel == [tender_fee |-> sNotFound, emd |-> sNotFound]

extract_financial_info_from_table(table_data) ==
    ExceptReturn(financial_info_try(table_data), "Error extracting financial info",
                 financial_info_sentinel)

\* lines 195-200
eligibility_of(s, match) ==
    IF match.ok
    THEN [eligibility |-> ReSub(numbering_pattern, <<>>, clean_text(Group(s, match, 1)))]
    ELSE [eligibility |-> sEligibilityNotFound]

\* the try block of extract_eligibility_info
eligibility_info_try(text) ==
    IF ~IsStr(text) THEN Raise("TypeError")
    ELSE Returned(eligibility_of(text.v, ReSearch(eligibility_pattern, text.v)))

eligibility_info_sentinel == [eligibility |-> sEligibilityError]

extract_eligibility_info(text) ==
    ExceptReturn(eligibility_info_try(text), "Error extracting eligibility info",
                 eligibility_info_sentinel)

\* the try block of extract_technical_info
technical_info_try(text) ==
    IF ~IsStr(text) THEN Raise("TypeError")
    ELSE Returned(SetStripped(EmptyDict, "technical_specifications", text.v,
                              ReSearch(technical_pattern, text.v), 2, sNotFound))

technical_info_sentinel == [technical_specifications |-> sNotFound]

extract_technical_info(text) ==
    ExceptReturn(technical_info_try(text), "Error extracting technical info",
                 technical_info_sentinel)

\* list(xs) without the set, for comparison
ListOfAll(xs) == {xs}

\* list(set(xs)): the distinct elements of xs, in an order the set decides
ListsOfSet(xs) == {l \in [1..Cardinality(Range(xs)) -> Range(xs)] : Range(l) = Range(xs)}

\* the try block of extract_contact_info: every outcome the order of a set allows
contact_info_try(text) ==
    IF ~IsStr(text) THEN {Raise("TypeError")}
    ELSE {Returned([emails |-> emails, phone_numbers |-> phone_numbers]) :
            emails \in ListsOfSet(ReFindAll(email_pattern, text.v)),
            phone_numbers \in ListsOfSet(ReFindAll(phone_pattern, text.v))}

contact_info_sentinel == [emails |-> <<>>, phone_numbers |-> <<>>]

extract_contact_info(text) ==
    {ExceptReturn(body, "Error extracting contact info", contact_info_sentinel) :
        body \in contact_info_try(text)}

(***************************************************************************)
(* Inputs                                                                   *)
(***************************************************************************)
\* the most pages of a modelled PDF
MaxPages == 2

\* the most fragments of a modelled text
MaxFrags == 3

\* the most rows of modelled table data
MaxRows == 2

SeqsUpTo(S, n) == UNION {[1..k -> S] : k \in 0..n}

Cells(cs) == PyList([k \in DOMAIN cs |-> IF cs[k] = sNone THEN PyNone ELSE PyStr(cs[k])])

\* the rows of the tables: rows as extract_tables() gives them, lists of str cells with
\* None for an empty cell; and rows no PDF yields, a row that is None, cells that are int
Row ==
    LET \* "Tender Fee: 5,000.00"
        cFeeLabelled == <<"T", "e", "n", "d", "e", "r", " ", "F", "e", "e", ":", " ", "5", ",",
                      "0", "0", "0", ".", "0", "0">>
        \* "EMD 1,200.50"
        cEmdLabelled == <<"E", "M", "D", " ", "1", ",", "2", "0", "0", ".", "5", "0">>
        \* "100"
        cFee100 == <<"1", "0", "0">>
        \* "200.50 EMD"
        cEmd200 == <<"2", "0", "0", ".", "5", "0", " ", "E", "M", "D">>
        \* "N/A"
        cNA == <<"N", "/", "A">>
        \* "300"
        cEmd300 == <<"3", "0", "0">>
        \* "400 Rs"
        cFee400 == <<"4", "0", "0", " ", "R", "s">>
        \* "15.03.2024 "
        cDate15 == <<"1", "5", ".", "0", "3", ".", "2", "0", "2", "4", " ">>
        \* "16.03.2024"
        cDate16 == <<"1", "6", ".", "0", "3", ".", "2", "0", "2", "4">>
        \* "17.03.2024"
        cDate17 == <<"1", "7", ".", "0", "3", ".", "2", "0", "2", "4">>
        \* "Opening of Technical e-Bid date"
        cMarkerNote == <<"O", "p", "e", "n", "i", "n", "g", " ", "o", "f", " ", "T", "e", "c",
                     "h", "n", "i", "c", "a", "l", " ", "e", "-", "B", "i", "d", " ", "d", "a",
                     "t", "e">>
        \* "none"
        cNone == <<"n", "o", "n", "e">>
        \* "1503202412"
        cIntDate == <<"1", "5", "0", "3", "2", "0", "2", "4", "1", "2">>
        \* "200"
        cInt200 == <<"2", "0", "0">>
    IN
        [ Labelled |-> Cells(<<<<>>, <<>>, <<>>, cFeeLabelled, cEmdLabelled>>),
          Header |-> Cells(<<<<>>, <<>>, <<>>, sTenderFee, sEMD>>),
          Amounts |-> Cells(<<<<"a">>, <<"b">>, <<"c">>, cFee100, cEmd200>>),
          EmdOnly |-> Cells(<<<<"a">>, <<"b">>, <<"c">>, cNA, cEmd300>>),
          NoEmd |-> Cells(<<<<"x">>, <<>>, <<>>, cFee400, <<>>>>),
          Opening |-> Cells(<<sMarker, cDate15, cDate16>>),
          OpeningLate |-> Cells(<<sMarker, sNone, cDate17>>),
          OpeningNoDate |-> Cells(<<cMarkerNote, cNone>>),
          None |-> PyNone,
          IntEmd |-> PyList(<<PyStr(<<>>), PyStr(<<>>), PyStr(<<>>), PyStr(cFee100),
                              PyInt(cInt200)>>),
          IntDate |-> PyList(<<PyStr(sMarker), PyInt(cIntDate)>>) ]

PdfRows == {Row.Labelled, Row.Header, Row.Amounts, Row.EmdOnly, Row.NoEmd,
            Row.Opening, Row.OpeningLate, Row.OpeningNoDate}

AnyRows == PdfRows \cup {Row.None, Row.IntEmd, Row.IntDate}

\* the rows in one table, or split over two tables
Tabled(rows) ==
    {PyList(<<PyList(rows)>>)}
    \cup {PyList(<<PyList(SubSeq(rows, 1, k)), PyList(SubSeq(rows, k + 1, Len(rows)))>>) :
            k \in 1..(Len(rows) - 1)}

\* table data a caller can pass, well formed or not
TableInputs ==
    UNION {Tabled(rows) : rows \in SeqsUpTo(AnyRows, MaxRows)}
    \cup {PyList(<<>>), PyNone, PyList(<<PyNone>>)}

TextFrags ==
    LET \* "a@b.com"
        fEmailA == <<"a", "@", "b", ".", "c", "o", "m">>
        \* "c@d.org"
        fEmailC == <<"c", "@", "d", ".", "o", "r", "g">>
        \* "555-123-4567"
        fPhone == <<"5", "5", "5", "-", "1", "2", "3", "-", "4", "5", "6", "7">>
        \* "Ref e-Tender Notice AB/1"
        fRef == <<"R", "e", "f", " ", "e", "-", "T", "e", "n", "d", "e", "r", " ", "N", "o", "t",
              "i", "c", "e", " ", "A", "B", "/", "1">>
    IN
        {fEmailA, fEmailC, fPhone, fRef}

\* the texts of whole pages
Texts ==
    LET \* "Ref. e-Tender Notice - AB/1\nStart Date: 15-03-2024"
        tRefAndStart == <<"R", "e", "f", ".", " ", "e", "-", "T", "e", "n", "d", "e", "r", " ",
                      "N", "o", "t", "i", "c", "e", " ", "-", " ", "A", "B", "/", "1", "\n", "S",
                      "t", "a", "r", "t", " ", "D", "a", "t", "e", ":", " ", "1", "5", "-", "0",
                      "3", "-", "2", "0", "2", "4">>
        \* "Scope of Work: steel  frame\nmail a@b.com, a@b.com 555-123-4567"
        tScopeAndContact == <<"S", "c", "o", "p", "e", " ", "o", "f", " ", "W", "o", "r", "k",
                          ":", " ", "s", "t", "e", "e", "l", " ", " ", "f", "r", "a", "m", "e",
                          "\n", "m", "a", "i", "l", " ", "a", "@", "b", ".", "c", "o", "m", ",",
                          " ", "a", "@", "b", ".", "c", "o", "m", " ", "5", "5", "5", "-", "1",
                          "2", "3", "-", "4", "5", "6", "7">>
        \* " \t"
        tBlank == <<" ", "\t">>
        \* "This is a domestic Tender. Only class I are\neligible to participate in tender 1. now Annexure"
        tEligibility == <<"T", "h", "i", "s", " ", "i", "s", " ", "a", " ", "d", "o", "m", "e",
                      "s", "t", "i", "c", " ", "T", "e", "n", "d", "e", "r", ".", " ", "O", "n",
                      "l", "y", " ", "c", "l", "a", "s", "s", " ", "I", " ", "a", "r", "e", "\n",
                      "e", "l", "i", "g", "i", "b", "l", "e", " ", "t", "o", " ", "p", "a", "r",
                      "t", "i", "c", "i", "p", "a", "t", "e", " ", "i", "n", " ", "t", "e", "n",
                      "d", "e", "r", " ", "1", ".", " ", "n", "o", "w", " ", "A", "n", "n", "e",
                      "x", "u", "r", "e">>
        \* "invites e-tender for Fabrication of Machine and Raw Materials. End Date 1/2/2025"
        tTitleAndDates == <<"i", "n", "v", "i", "t", "e", "s", " ", "e", "-", "t", "e", "n", "d",
                        "e", "r", " ", "f", "o", "r", " ", "F", "a", "b", "r", "i", "c", "a", "t",
                        "i", "o", "n", " ", "o", "f", " ", "M", "a", "c", "h", "i", "n", "e", " ",
                        "a", "n", "d", " ", "R", "a", "w", " ", "M", "a", "t", "e", "r", "i", "a",
                        "l", "s", ".", " ", "E", "n", "d", " ", "D", "a", "t", "e", " ", "1", "/",
                        "2", "/", "2", "0", "2", "5">>
    IN  [ RefAndStart |-> tRefAndStart,
          ScopeAndContact |-> tScopeAndContact,
          Blank |-> tBlank,
          Eligibility |-> tEligibility,
          TitleAndDates |-> tTitleAndDates ]

FixedTexts == {Texts[k] : k \in DOMAIN Texts}

\* texts a caller can pass, and values that are no str
TextInputs ==
    {PyStr(Join(fs, <<" ">>)) : fs \in SeqsUpTo(TextFrags, MaxFrags)}
    \cup {PyStr(t) : t \in FixedTexts}
    \cup {PyNone, PyInt(<<"2", "0", "0">>)}

TimelineInputs ==
    (TextInputs \X {PyList(<<>>)}) \cup ({PyStr(Texts.RefAndStart), PyNone} \X TableInputs)

\* the pages of document.pdf
PagePool ==
    {Page(PyStr(Texts.RefAndStart), <<PyList(<<Row.Opening, Row.Amounts>>)>>, FALSE),
     Page(PyNone, <<>>, FALSE),
     Page(PyStr(Texts.ScopeAndContact), <<>>, FALSE),
     Page(PyStr(Texts.Blank), <<>>, TRUE),
     Page(PyStr(Texts.Eligibility), <<PyList(<<Row.Header, Row.EmdOnly>>)>>, FALSE)}

Files == {MissingFile, NotAPdf} \cup {Pdf(pages) : pages \in SeqsUpTo(PagePool, MaxPages)}

(***************************************************************************)
(* State                                                                    *)
(***************************************************************************)
VARIABLES
    pc,               \* where main is; in the call harness, "call" or "returned"
    file,             \* document.pdf
    model,            \* main's model, tokenizer
    document_text,
    table_data,
    tender_info,
    timeline_info,
    financial_info,
    eligibility_info,
    technical_info,
    contact_info,
    extracted_data,
    outfile,          \* extracted_data.json: "absent", "partial" or "complete"
    console,          \* what print has written
    log,              \* what logging.error has written
    raised,           \* the exception that left the program, "" if none
    calls             \* the calls made so far: function and text argument

vars == <<pc, file, model, document_text, table_data, tender_info, timeline_info,
          financial_info, eligibility_info, technical_info, contact_info, extracted_data,
          outfile, console, log, raised, calls>>

infos == <<tender_info, timeline_info, financial_info, eligibility_info, technical_info,
           contact_info>>

\* a call without a text argument
NoText == [ty |-> "absent", v |-> <<>>]

Call(fn, text) == [fn |-> fn, text |-> text]

\* a line on the console: a plain text, or the dump of a dictionary
Line(text) == [text |-> text, data |-> EmptyDict]

Dump(data) == [text |-> "", data |-> data]

Unassigned ==
    /\ model = <<>>
    /\ document_text = PyNone
    /\ table_data = PyNone
    /\ tender_info = EmptyDict
    /\ timeline_info = EmptyDict
    /\ financial_info = EmptyDict
    /\ eligibility_info = EmptyDict
    /\ technical_info = EmptyDict
    /\ contact_info = EmptyDict
    /\ extracted_data = EmptyDict
    /\ outfile = "absent"
    /\ console = <<>>
    /\ log = <<>>
    /\ raised = ""
    /\ calls = <<>>

(***************************************************************************)
(* main                                                                     *)
(***************************************************************************)
Init ==
    /\ pc = "load_model"
    /\ file \in Files
    /\ Unassigned

\* a main that catches the exception of a call and goes on, for comparison
ProceedRegardless(r, fn, text, next) ==
    /\ pc' = next
    /\ raised' = IF r.raised THEN r.exc ELSE raised
    /\ log' = log \o r.log
    /\ calls' = Append(calls, Call(fn, text))

\* after the call with outcome r: on to next, or out of main with its exception
Proceed(r, fn, text, next) ==
    /\ pc' = IF r.raised THEN "raised" ELSE next
    /\ raised' = IF r.raised THEN r.exc ELSE raised
    /\ log' = log \o r.log
    /\ calls' = Append(calls, Call(fn, text))

Bind(r, old) == IF r.raised THEN old ELSE r.val

\* a main that normalizes the text before it hands it on, for comparison
cleaned_text(text) == PyStr(clean_text(text.v))

\* the text main hands to the extractors (lines 258-263)
extractor_text(text) == text

\* line 253
main_load_model ==
    /\ pc = "load_model"
    /\ \E available \in BOOLEAN : \E r \in {load_model(available)} :
          /\ Proceed(r, "load_model", NoText, "load_document")
          /\ model' = Bind(r, model)
    /\ UNCHANGED <<file, document_text, table_data, tender_info, timeline_info,
                   financial_info, eligibility_info, technical_info, contact_info,
                   extracted_data, outfile, console>>

\* line 254
main_load_document ==
    /\ pc = "load_document"
    /\ \E r \in {load_document(file)} :
          /\ Proceed(r, "load_document", NoText, "extract_table_data")
          /\ document_text' = Bind(r, document_text)
    /\ UNCHANGED <<file, model, table_data, tender_info, timeline_info, financial_info,
                   eligibility_info, technical_info, contact_info, extracted_data, outfile,
                   console>>

\* line 255
main_extract_table_data ==
    /\ pc = "extract_table_data"
    /\ \E r \in {extract_table_data(file)} :
          /\ Proceed(r, "extract_table_data", NoText, "extract_tender_info")
          /\ table_data' = Bind(r, table_data)
    /\ UNCHANGED <<file, model, document_text, tender_info, timeline_info, financial_info,
                   eligibility_info, technical_info, contact_info, extracted_data, outfile,
                   console>>

\* line 258
main_extract_tender_info ==
    /\ pc = "extract_tender_info"
    /\ \E text \in {extractor_text(document_text)} :
          \E r \in {extract_tender_info(text)} :
              /\ Proceed(r, "extract_tender_info", text, "extract_timeline_info")
              /\ tender_info' = Bind(r, tender_info)
    /\ UNCHANGED <<file, model, document_text, table_data, timeline_info, financial_info,
                   eligibility_info, technical_info, contact_info, extracted_data, outfile,
                   console>>

\* line 259
main_extract_timeline_info ==
    /\ pc = "extract_timeline_info"
    /\ \E text \in {extractor_text(document_text)} :
          \E r \in {extract_timeline_info(text, table_data)} :
              /\ Proceed(r, "extract_timeline_info", text, "extract_financial_info_from_table")
              /\ timeline_info' = Bind(r, timeline_info)
    /\ UNCHANGED <<file, model, document_text, table_data, tender_info, financial_info,
                   eligibility_info, technical_info, contact_info, extracted_data, outfile,
                   console>>

\* line 260
main_extract_financial_info ==
    /\ pc = "extract_financial_info_from_table"
    /\ \E r \in {extract_financial_info_from_table(table_data)} :
          /\ Proceed(r, "extract_financial_info_from_table", NoText, "extract_eligibility_info")
          /\ financial_info' = Bind(r, financial_info)
    /\ UNCHANGED <<file, model, document_text, table_data, tender_info, timeline_info,
                   eligibility_info, technical_info, contact_info, extracted_data, outfile,
                   console>>

\* line 261
main_extract_eligibility_info ==
    /\ pc = "extract_eligibility_info"
    /\ \E text \in {extractor_text(document_text)} :
          \E r \in {extract_eligibility_info(text)} :
              /\ Proceed(r, "extract_eligibility_info", text, "extract_technical_info")
              /\ eligibility_info' = Bind(r, eligibility_info)
    /\ UNCHANGED <<file, model, document_text, table_data, tender_info, timeline_info,
                   financial_info, technical_info, contact_info, extracted_data, outfile,
                   console>>

\* line 262
main_extract_technical_info ==
    /\ pc = "extract_technical_info"
    /\ \E text \in {extractor_text(document_text)} :
          \E r \in {extract_technical_info(text)} :
              /\ Proceed(r, "extract_technical_info", text, "extract_contact_info")
              /\ technical_info' = Bind(r, technical_info)
    /\ UNCHANGED <<file, model, document_text, table_data, tender_info, timeline_info,
                   financial_info, eligibility_info, contact_info, extracted_data, outfile,
                   console>>

\* line 263
main_extract_contact_info ==
    /\ pc = "extract_contact_info"
    /\ \E text \in {extractor_text(document_text)} :
          \E r \in extract_contact_info(text) :
              /\ Proceed(r, "extract_contact_info", text, "compile")
              /\ contact_info' = Bind(r, contact_info)
    /\ UNCHANGED <<file, model, document_text, table_data, tender_info, timeline_info,
                   financial_info, eligibility_info, technical_info, extracted_data,
                   outfile, console>>

\* lines 266-273
main_compile ==
    /\ pc = "compile"
    /\ extracted_data' = [tender_info |-> tender_info,
                          timeline_info |-> timeline_info,
                          financial_info |-> financial_info,
                          eligibility_info |-> eligibility_info,
                          technical_info |-> technical_info,
                          contact_info |-> contact_info]
    /\ pc' = "save"
    /\ UNCHANGED <<file, model, document_text, table_data, infos, outfile, console, log,
                   raised, calls>>

\* open("extracted_data.json", "w") and json.dump: done, or failed at the open, or
\* failed during the dump
save_extracted_data(disk) ==
    CASE disk = "ok" -> [Returned(<<>>) EXCEPT !.val = "complete"]
      [] disk = "open_fails" -> [Raise("OSError") EXCEPT !.val = "absent"]
      [] disk = "dump_fails" -> [Raise("OSError") EXCEPT !.val = "partial"]

\* a save without its except clause, for comparison
save_propagate(r) == r

\* what the except clause of lines 280-281 makes of the outcome of the save
save_handler(r) ==
    IF r.raised THEN Logged("Error saving extracted data to file", [r EXCEPT !.raised = FALSE])
    ELSE r

\* lines 276-281
main_save ==
    /\ pc = "save"
    /\ \E disk \in {"ok", "open_fails", "dump_fails"} :
          \E r \in {save_handler(save_extracted_data(disk))} :
              /\ outfile' = r.val
              /\ pc' = IF r.raised THEN "raised" ELSE "print"
              /\ raised' = IF r.raised THEN r.exc ELSE raised
              /\ log' = log \o r.log
    /\ UNCHANGED <<file, model, document_text, table_data, infos, extracted_data, console,
                   calls>>

\* lines 284-285
main_print ==
    /\ pc = "print"
    /\ console' = console \o <<Line("Extracted Data:"), Dump(extracted_data)>>
    /\ pc' = "done"
    /\ UNCHANGED <<file, model, document_text, table_data, infos, extracted_data, outfile,
                   log, raised, calls>>

Next ==
    \/ main_load_model
    \/ main_load_document
    \/ main_extract_table_data
    \/ main_extract_tender_info
    \/ main_extract_timeline_info
    \/ main_extract_financial_info
    \/ main_extract_eligibility_info
    \/ main_extract_technical_info
    \/ main_extract_contact_info
    \/ main_compile
    \/ main_save
    \/ main_print

Spec == Init /\ [][Next]_vars

(***************************************************************************)
(* The functions called one at a time, on any input                        *)
(***************************************************************************)
InitCall ==
    /\ pc = "call"
    /\ file = MissingFile
    /\ Unassigned

\* the call returned, or raised
Return(r, fn, text) ==
    /\ pc' = "returned"
    /\ raised' = IF r.raised THEN r.exc ELSE raised
    /\ log' = log \o r.log
    /\ calls' = Append(calls, Call(fn, text))

call_load_document ==
    /\ pc = "call"
    /\ \E f \in Files :
          \E r \in {load_document(f)} :
              /\ file' = f
              /\ Return(r, "load_document", NoText)
              /\ document_text' = Bind(r, document_text)
    /\ UNCHANGED <<model, table_data, tender_info, timeline_info, financial_info,
                   eligibility_info, technical_info, contact_info, extracted_data, outfile,
                   console>>

call_extract_table_data ==
    /\ pc = "call"
    /\ \E f \in Files :
          \E r \in {extract_table_data(f)} :
              /\ file' = f
              /\ Return(r, "extract_table_data", NoText)
              /\ table_data' = Bind(r, table_data)
    /\ UNCHANGED <<model, document_text, tender_info, timeline_info, financial_info,
                   eligibility_info, technical_info, contact_info, extracted_data, outfile,
                   console>>

call_extract_tender_info ==
    /\ pc = "call"
    /\ \E text \in TextInputs :
          \E r \in {extract_tender_info(text)} :
              /\ document_text' = text
              /\ Return(r, "extract_tender_info", text)
              /\ tender_info' = Bind(r, tender_info)
    /\ UNCHANGED <<file, model, table_data, timeline_info, financial_info,
                   eligibility_info, technical_info, contact_info, extracted_data, outfile,
                   console>>

call_extract_timeline_info ==
    /\ pc = "call"
    /\ \E in \in TimelineInputs :
          \E r \in {extract_timeline_info(in[1], in[2])} :
              /\ document_text' = in[1]
              /\ table_data' = in[2]
              /\ Return(r, "extract_timeline_info", in[1])
              /\ timeline_info' = Bind(r, timeline_info)
    /\ UNCHANGED <<file, model, tender_info, financial_info, eligibility_info,
                   technical_info, contact_info, extracted_data, outfile, console>>

call_extract_financial_info ==
    /\ pc = "call"
    /\ \E tables \in TableInputs :
          \E r \in {extract_financial_info_from_table(tables)} :
              /\ table_data' = tables
              /\ Return(r, "extract_financial_info_from_table", NoText)
              /\ financial_info' = Bind(r, financial_info)
    /\ UNCHANGED <<file, model, document_text, tender_info, timeline_info,
                   eligibility_info, technical_info, contact_info, extracted_data, outfile,
                   console>>

call_extract_eligibility_info ==
    /\ pc = "call"
    /\ \E text \in TextInputs :
          \E r \in {extract_eligibility_info(text)} :
              /\ document_text' = text
              /\ Return(r, "extract_eligibility_info", text)
              /\ eligibility_info' = Bind(r, eligibility_info)
    /\ UNCHANGED <<file, model, table_data, tender_info, timeline_info, financial_info,
                   technical_info, contact_info, extracted_data, outfile, console>>

call_extract_technical_info ==
    /\ pc = "call"
    /\ \E text \in TextInputs :
          \E r \in {extract_technical_info(text)} :
              /\ document_text' = text
              /\ Return(r, "extract_technical_info", text)
              /\ technical_info' = Bind(r, technical_info)
    /\ UNCHANGED <<file, model, table_data, tender_info, timeline_info, financial_info,
                   eligibility_info, contact_info, extracted_data, outfile, console>>

call_extract_contact_info ==
    /\ pc = "call"
    /\ \E text \in TextInputs :
          \E r \in extract_contact_info(text) :
              /\ document_text' = text
              /\ Return(r, "extract_contact_info", text)
              /\ contact_info' = Bind(r, contact_info)
    /\ UNCHANGED <<file, model, table_data, tender_info, timeline_info, financial_info,
                   eligibility_info, technical_info, extracted_data, outfile, console>>

NextCall ==
    \/ call_load_document
    \/ call_extract_table_data
    \/ call_extract_tender_info
    \/ call_extract_timeline_info
    \/ call_extract_financial_info
    \/ call_extract_eligibility_info
    \/ call_extract_technical_info
    \/ call_extract_contact_info

SpecCall == InitCall /\ [][NextCall]_vars

(***************************************************************************)
(* Properties                                                               *)
(***************************************************************************)
\* in the call harness: function fn was called and the call is over
Called(fn) == pc = "returned" /\ calls[1].fn = fn

NoDuplicates(l) == \A i, j \in DOMAIN l : l[i] = l[j] => i = j

\* table data as the data model has it: tables of rows of cells, a cell a str or None
WellFormed(tables) ==
    /\ IsList(tables)
    /\ \A t \in DOMAIN tables.v :
          /\ IsList(tables.v[t])
          /\ \A r \in DOMAIN tables.v[t].v :
                /\ IsList(tables.v[t].v[r])
                /\ \A c \in DOMAIN tables.v[t].v[r].v :
                      tables.v[t].v[r].v[c].ty \in {"str", "NoneType"}

RECURSIVE Flatten(_)
Flatten(ls) == IF ls = <<>> THEN <<>> ELSE Head(ls).v \o Flatten(Tail(ls))

\* the rows of well formed table data in scan order: tables in order, rows in order
RowsInScanOrder(tables) == Flatten(tables.v)

\* the largest element of a non-empty set of numbers
Last(S) == CHOOSE k \in S : \A j \in S : j <= k

First(S) == CHOOSE k \in S : \A j \in S : k <= j

SixKeys == {"tender_info", "timeline_info", "financial_info", "eligibility_info",
            "technical_info", "contact_info"}

TextExtractors == {"extract_tender_info", "extract_timeline_info",
                   "extract_eligibility_info", "extract_technical_info",
                   "extract_contact_info"}

Extractors == TextExtractors \cup {"extract_financial_info_from_table"}

\* C1 (as claimed): whatever the input, the mapping an extractor returns has all of
\* its expected keys: reference_number and title; the four timeline keys; tender_fee
\* and emd; eligibility; technical_specifications; emails and phone_numbers.
C1_AllKeysPresent ==
    /\ Called("extract_tender_info") => {"reference_number", "title"} \subseteq DOMAIN tender_info
    /\ Called("extract_timeline_info") =>
          {"start_date", "end_date", "physical_submission_end_date", "technical_bid_opening"}
              \subseteq DOMAIN timeline_info
    /\ Called("extract_financial_info_from_table") =>
          {"tender_fee", "emd"} \subseteq DOMAIN financial_info
    /\ Called("extract_eligibility_info") => {"eligibility"} \subseteq DOMAIN eligibility_info
    /\ Called("extract_technical_info") =>
          {"technical_specifications"} \subseteq DOMAIN technical_info
    /\ Called("extract_contact_info") => {"emails", "phone_numbers"} \subseteq DOMAIN contact_info

\* the try block of the extractor that was called raised on the arguments of the call
BodyRaised ==
    \/ Called("extract_tender_info") /\ tender_info_try(document_text).raised
    \/ Called("extract_timeline_info") /\ timeline_info_try(document_text, table_data).raised
    \/ Called("extract_financial_info_from_table") /\ financial_info_try(table_data).raised
    \/ Called("extract_eligibility_info") /\ eligibility_info_try(document_text).raised
    \/ Called("extract_technical_info") /\ technical_info_try(document_text).raised
    \/ Called("extract_contact_info")
       /\ \A body \in contact_info_try(document_text) : body.raised

\* the mapping with the value "Not found" under each of the keys
AllNotFound(keys) == [k \in keys |-> sNotFound]

\* what C2 says the extractors other than the eligibility extractor return when
\* their try block raises
SentinelsAsClaimed ==
    /\ Called("extract_tender_info") =>
          tender_info = AllNotFound({"reference_number", "title"})
    /\ Called("extract_timeline_info") =>
          timeline_info = AllNotFound({"start_date", "end_date",
                                       "physical_submission_end_date",
                                       "technical_bid_opening"})
    /\ Called("extract_financial_info_from_table") =>
          financial_info = AllNotFound({"tender_fee", "emd"})
    /\ Called("extract_technical_info") =>
          technical_info = AllNotFound({"technical_specifications"})
    /\ Called("extract_contact_info") =>
          contact_info = [emails |-> <<>>, phone_numbers |-> <<>>]

\* C2 (as claimed): when the try block of an extractor raises, the extractor raises
\* nothing and returns its full sentinel mapping, every string field "Not found" and
\* every list field empty.
C2_SentinelNotFound ==
    BodyRaised =>
        /\ raised = ""
        /\ SentinelsAsClaimed
        /\ Called("extract_eligibility_info") =>
              eligibility_info = AllNotFound({"eligibility"})

\* C2 (amended): when the try block of an extractor raises, the extractor raises
\* nothing and returns its full sentinel mapping, whatever was computed before the
\* exception discarded: every string field "Not found" and every list field empty,
\* except that the eligibility field is "Error extracting eligibility info".
C2_SentinelOnException ==
    BodyRaised =>
        /\ raised = ""
        /\ SentinelsAsClaimed
        /\ Called("extract_eligibility_info") =>
              /\ DOMAIN eligibility_info = {"eligibility"}
              /\ Str(eligibility_info.eligibility) = "Error extracting eligibility info"

\* C2 witness: the timeline extractor was given a proper text, so the three dates were
\* computed, and then the table scan raised on a cell that is no str
C2_Witness ==
    /\ Called("extract_timeline_info")
    /\ IsStr(document_text)
    /\ BodyRaised
    /\ Str(timeline_info.start_date) = "Not found"
    /\ Str(timeline_dates(document_text.v).start_date) = "15-03-2024"

\* C3: a failure to load the model, the text or the tables leaves main as an
\* exception, and then no extractor has been or is called, no output file is written
\* and nothing is printed; extraction and output happen only after the model, the
\* text and the tables were loaded, in that order, without an exception.
C3_NoExtractionAfterLoadFailure ==
    /\ pc = "raised" =>
          /\ raised \in {"RuntimeError", "FileNotFoundError"}
          /\ calls[Len(calls)].fn \in {"load_model", "load_document", "extract_table_data"}
    /\ raised # "" =>
          /\ pc = "raised"
          /\ \A k \in DOMAIN calls : calls[k].fn \notin Extractors
          /\ extracted_data = EmptyDict
          /\ outfile = "absent"
          /\ console = <<>>
    /\ (\/ \E k \in DOMAIN calls : calls[k].fn \in Extractors
        \/ pc \in Extractors \cup {"compile", "save", "print", "done"}
        \/ outfile # "absent"
        \/ console # <<>>) =>
          /\ raised = ""
          /\ Len(calls) >= 3
          /\ <<calls[1].fn, calls[2].fn, calls[3].fn>>
                = <<"load_model", "load_document", "extract_table_data">>
          /\ model # <<>>
          /\ IsStr(document_text)
          /\ IsList(table_data)

\* C3 witness: the document could not be loaded, after the model was
C3_Witness ==
    /\ pc = "raised"
    /\ Len(calls) = 2
    /\ calls[2].fn = "load_document"
    /\ raised = "FileNotFoundError"

\* the table data whose only row is the labelled row of C4
LabelledTable == PyList(<<PyList(<<Row.Labelled>>)>>)

\* C4 (as claimed): the table row ["", "", "", "Tender Fee: 5,000.00", "EMD 1,200.50"]
\* yields tender_fee "5,000.00" and emd "1,200.50": a data row whose cells hold a
\* label and an amount is no header row.
C4_LabelledRowYieldsAmounts ==
    (Called("extract_financial_info_from_table") /\ table_data = LabelledTable) =>
        /\ DOMAIN financial_info = {"tender_fee", "emd"}
        /\ Str(financial_info.tender_fee) = "5,000.00"
        /\ Str(financial_info.emd) = "1,200.50"

\* the file cannot be opened
OpenFails == pdfplumber_open(file).raised

\* C5 (as claimed): of either loader, a file that cannot be opened makes the loader
\* raise a file-access error, any other exception during the load makes it raise an
\* error of another kind, and a loader that raises returns nothing.
C5_LoaderErrorKinds ==
    /\ Called("load_document") =>
          /\ OpenFails => raised = "FileNotFoundError"
          /\ (~OpenFails /\ load_document_try(file).raised) =>
                raised \notin {"", "FileNotFoundError"}
          /\ raised # "" => document_text = PyNone
    /\ Called("extract_table_data") =>
          /\ OpenFails => raised = "FileNotFoundError"
          /\ (~OpenFails /\ extract_table_data_try(file).raised) =>
                raised \notin {"", "FileNotFoundError"}
          /\ raised # "" => table_data = PyNone

\* C5 (amended): load_document raises the file-access error FileNotFoundError for
\* every exception of its load, one raised while reading a page included;
\* extract_table_data raises the RuntimeError "Table extraction failed" for every
\* exception of its load, a file that cannot be opened included; a loader that
\* raises returns nothing, and one that does not returns the whole text or table list.
C5_OneErrorKindPerLoader ==
    /\ Called("load_document") =>
          IF load_document_try(file).raised
          THEN raised = "FileNotFoundError" /\ document_text = PyNone
          ELSE raised = "" /\ document_text = load_document_try(file).val
    /\ Called("extract_table_data") =>
          IF extract_table_data_try(file).raised
          THEN raised = "RuntimeError" /\ table_data = PyNone
          ELSE raised = "" /\ table_data = extract_table_data_try(file).val

\* C5 witness: the table extractor was given a file that does not exist
C5_Witness ==
    /\ Called("extract_table_data")
    /\ file = MissingFile
    /\ raised = "RuntimeError"

\* C6: once the six extractors have returned, a failure to write the JSON file is
\* logged and leaves main running: main goes on to print, and what it prints is the
\* merged result with exactly the six top-level keys.
C6_SaveFailureNotFatal ==
    /\ (pc \in {"print", "done"} /\ outfile # "complete") =>
          /\ raised = ""
          /\ log # <<>>
          /\ log[Len(log)] = "Error saving extracted data to file"
    /\ pc \in {"save", "print", "done"} =>
          /\ raised = ""
          /\ extracted_data = [tender_info |-> tender_info,
                               timeline_info |-> timeline_info,
                               financial_info |-> financial_info,
                               eligibility_info |-> eligibility_info,
                               technical_info |-> technical_info,
                               contact_info |-> contact_info]
          /\ DOMAIN extracted_data = SixKeys
    /\ (\A fn \in Extractors : \E k \in DOMAIN calls : calls[k].fn = fn) =>
          /\ raised = ""
          /\ pc \in {"compile", "save", "print", "done"}
    /\ pc = "print" => ENABLED main_print
    /\ pc = "done" => console = <<Line("Extracted Data:"), Dump(extracted_data)>>

\* C6 witness: the dump of the JSON file failed half way and the result was printed
C6_Witness ==
    /\ pc = "done"
    /\ outfile = "partial"
    /\ Len(console) = 2
    /\ DOMAIN console[2].data = SixKeys

\* C7: the emails returned hold no duplicates and are, as a set, the matches of the
\* email pattern in the text; the same for the phone numbers and the phone pattern;
\* "a@b.com a@b.com" yields exactly ["a@b.com"].
C7_ContactDeduplicated ==
    (Called("extract_contact_info") /\ IsStr(document_text)) =>
        /\ NoDuplicates(contact_info.emails)
        /\ Range(contact_info.emails) = Range(ReFindAll(email_pattern, document_text.v))
        /\ NoDuplicates(contact_info.phone_numbers)
        /\ Range(contact_info.phone_numbers)
              = Range(ReFindAll(phone_pattern, document_text.v))
        /\ Str(document_text.v) = "a@b.com a@b.com" =>
              /\ Len(contact_info.emails) = 1
              /\ Str(contact_info.emails[1]) = "a@b.com"

\* C7 witness: the text holds one email twice and another once
C7_Witness ==
    /\ Called("extract_contact_info")
    /\ IsStr(document_text)
    /\ Len(ReFindAll(email_pattern, document_text.v)) = 3
    /\ Len(contact_info.emails) = 2

\* the cell starts like a date: \d{2}.\d{2}.\d{4}
DateShaped(cell) == ReMatch(cell_date_pattern, PyStrOf(cell)).ok

\* the row holds the marker "Opening of Technical e-Bid" and a date-shaped cell
OpeningRow(row) ==
    /\ Contains(sMarker, PyStrOf(row))
    /\ \E c \in DOMAIN row.v : DateShaped(row.v[c])

\* the first date-shaped cell of the row, stripped
OpeningDate(row) == Strip(row.v[First({c \in DOMAIN row.v : DateShaped(row.v[c])})].v)

OpeningRows(rows) == {k \in DOMAIN rows : OpeningRow(rows[k])}

\* C8: for a text and well formed table data with a row that holds the marker and a
\* date-shaped cell, technical_bid_opening is the stripped first date-shaped cell of
\* the last such row in scan order.
C8_LastOpeningRowWins ==
    (/\ Called("extract_timeline_info")
     /\ IsStr(document_text)
     /\ WellFormed(table_data)
     /\ OpeningRows(RowsInScanOrder(table_data)) # {}) =>
        /\ "technical_bid_opening" \in DOMAIN timeline_info
        /\ timeline_info.technical_bid_opening
              = OpeningDate(RowsInScanOrder(table_data)[
                                Last(OpeningRows(RowsInScanOrder(table_data)))])

\* C8 witness: two rows hold the marker and a date, and the date of the second,
\* which is in the second table, is the result
C8_Witness ==
    /\ Called("extract_timeline_info")
    /\ table_data = PyList(<<PyList(<<Row.Opening>>), PyList(<<Row.OpeningLate>>)>>)
    /\ Str(timeline_info.technical_bid_opening) = "17.03.2024"

\* a row the financial scan reads: at least five cells, cells 3 and 4 not empty, and
\* not both holding their header strings
FinancialRow(row) ==
    /\ Len(row.v) >= 5
    /\ Truthy(row.v[4])
    /\ Truthy(row.v[5])
    /\ ~IsHeaderRow(row.v[4].v, row.v[5].v)

FinancialRows(rows) == {k \in DOMAIN rows : FinancialRow(rows[k])}

\* the amount of the tender fee cell, and of the EMD cell, of a row; <<>> if none
FeeOf(row) == SetCleaned(EmptyDict, "tender_fee", row.v[4].v,
                         ReSearch(tender_fee_pattern, row.v[4].v))

EmdOf(row) == SetCleaned(EmptyDict, "emd", row.v[5].v, ReSearch(emd_pattern, row.v[5].v))

\* the value under key of the last of the rows that has one, no key if no row has;
\* found[k] is what row k alone gives
LastValue(found, key) ==
    IF \A k \in DOMAIN found : key \notin DOMAIN found[k] THEN EmptyDict
    ELSE found[Last({k \in DOMAIN found : key \in DOMAIN found[k]})]

\* C9 (as claimed): tender_fee and emd are both those of the last row the scan reads:
\* that row overwrites whatever earlier rows gave.
C9_BothFromLastRow ==
    (/\ Called("extract_financial_info_from_table")
     /\ WellFormed(table_data)
     /\ FinancialRows(RowsInScanOrder(table_data)) # {}) =>
        financial_info
            = FeeOf(RowsInScanOrder(table_data)[
                        Last(FinancialRows(RowsInScanOrder(table_data)))])
              @@ EmdOf(RowsInScanOrder(table_data)[
                           Last(FinancialRows(RowsInScanOrder(table_data)))])

\* C9 (amended): each field is overwritten on its own. tender_fee is the amount of
\* cell 3 of the last row the scan reads whose cell 3 holds an amount, emd the amount
\* of cell 4 of the last row the scan reads whose cell 4 holds an amount, and a field
\* no such row gives is missing; the two fields can come from different rows.
C9_LastAmountPerField ==
    (/\ Called("extract_financial_info_from_table")
     /\ WellFormed(table_data)) =>
        financial_info
            = LastValue([k \in FinancialRows(RowsInScanOrder(table_data)) |->
                            FeeOf(RowsInScanOrder(table_data)[k])], "tender_fee")
              @@ LastValue([k \in FinancialRows(RowsInScanOrder(table_data)) |->
                               EmdOf(RowsInScanOrder(table_data)[k])], "emd")

\* C9 witness: the fee is that of the first row, the EMD that of the second, whose
\* fee cell holds no amount
C9_Witness ==
    /\ Called("extract_financial_info_from_table")
    /\ table_data = PyList(<<PyList(<<Row.Amounts, Row.EmdOnly>>)>>)
    /\ Str(financial_info.tender_fee) = "100"
    /\ Str(financial_info.emd) = "300"

\* the calls of main that take the text
TextCalls == {k \in DOMAIN calls : calls[k].fn \in TextExtractors}

\* C10 (as claimed): the text main hands to each extractor that takes the text is the
\* loaded text after clean_text.
C10_ExtractorsGetCleanText ==
    \A k \in TextCalls : calls[k].text = PyStr(clean_text(document_text.v))

\* C10 (amended): the text main hands to each extractor that takes the text is the
\* text load_document returned, as it is, with its newlines; main never applies
\* clean_text to it.
C10_ExtractorsGetLoadedText ==
    \A k \in TextCalls :
        /\ calls[k].text = document_text
        /\ calls[k].text = load_document(file).val

\* C10 witness: the five extractors that take the text were called with a text that
\* clean_text would change
C10_Witness ==
    /\ pc = "done"
    /\ {calls[k].fn : k \in TextCalls} = TextExtractors
    /\ \A k \in TextCalls : calls[k].text.v # clean_text(calls[k].text.v)
    /\ Len(document_text.v) > 1

====
